---- MODULE Spec2Model ----
(***************************************************************************)
(* Model of the knowledge engine of src/minesweeper.py: the Sentence       *)
(* class, MinesweeperAI (mark_mine, mark_safe, add_knowledge,              *)
(* update_knowledge, infer_new_sentences, make_safe_move,                  *)
(* make_random_move) and the part of Minesweeper that produces the         *)
(* observations (the mine layout and nearby_mines).                        *)
(*                                                                         *)
(* Names of the specification and of the source:                           *)
(*   record_observation = add_knowledge, pick_safe_move = make_safe_move,  *)
(*   pick_random_move = make_random_move, Statement = Sentence.            *)
(***************************************************************************)
EXTENDS Integers, FiniteSets, Sequences, TLC

\* ---------------------------------------------------------------- bounds
Height == 2
Width == 3
\* the layouts: at most MaxMines mines, or at most MaxClear cells without one
MaxMines == 1
MaxClear == 2
\* add_knowledge calls in one run of Spec, SpecMoves, SpecOpen, SpecBreach
MaxCalls == 3
MaxMoveCalls == 2
MaxOpenCalls == 2
MaxBreachCalls == 2
\* largest count an observation that need not be truthful reports, in SpecOpen
\* and in SpecBreach
MaxCount == 2
MaxBreachCount == 3

\* ---------------------------------------------------------------- state
VARIABLES
    board,              \* Minesweeper.mines: the true layout (set of cells)
    moves_made,         \* MinesweeperAI.moves_made
    mines,              \* MinesweeperAI.mines
    safes,              \* MinesweeperAI.safes
    knowledge,          \* MinesweeperAI.knowledge: list of Sentences
    pc,                 \* position inside add_knowledge ("idle" between calls)
    arg_cell,           \* add_knowledge's parameter cell of the current/last call
    arg_count,          \* add_knowledge's parameter count of the current/last call
    safes_found,        \* update_knowledge's local safes, not yet marked
    mines_found,        \* update_knowledge's local mines, not yet marked
    knowledge_updated,  \* update_knowledge's local flag
    result,             \* the query that has just returned, and what it returned
    calls               \* number of calls made on the engine so far

vars == <<board, moves_made, mines, safes, knowledge, pc, arg_cell, arg_count,
          safes_found, mines_found, knowledge_updated, result, calls>>

engine == <<moves_made, mines, safes, knowledge>>

None == << >>

Grid == (0 .. Height - 1) \X (0 .. Width - 1)

\* cells a caller can name, in bounds or just outside the grid
AnyCell == (-1 .. Height) \X (-1 .. Width)

InBounds(cell) == 0 <= cell[1] /\ cell[1] < Height /\ 0 <= cell[2] /\ cell[2] < Width

\* the in-bounds cells within one row and column of cell, cell excluded
Neighbors(cell) ==
    {n \in Grid : /\ n # cell
                  /\ n[1] - cell[1] \in {-1, 0, 1}
                  /\ n[2] - cell[2] \in {-1, 0, 1}}

\* Minesweeper.nearby_mines
NearbyMines(cell) == Cardinality({n \in Neighbors(cell) : n \in board})

\* ---------------------------------------------------------------- Sentence
Sentence(cells, count) == [cells |-> cells, count |-> count]

SentenceEq(s, other) == s.cells = other.cells /\ s.count = other.count

\* a slip: every cell of a sentence with mines in it is taken for a mine
KnownMinesAnyCount(s) == IF s.count # 0 THEN s.cells ELSE {}

KnownMines(s) ==
    IF s.count = Cardinality(s.cells) /\ s.count # 0 THEN s.cells ELSE {}

KnownSafes(s) == IF s.count = 0 THEN s.cells ELSE {}

\* a slip: the cell is removed and the count is left as it was
SentenceMarkMineKeepCount(s, cell) ==
    IF cell \in s.cells
    THEN [cells |-> s.cells \ {cell}, count |-> s.count]
    ELSE s

\* a slip: the count is lowered whether or not the cell is in the sentence
SentenceMarkMineAlways(s, cell) ==
    [cells |-> s.cells \ {cell}, count |-> s.count - 1]

SentenceMarkMine(s, cell) ==
    IF cell \in s.cells
    THEN [cells |-> s.cells \ {cell}, count |-> s.count - 1]
    ELSE s

\* a slip: the cell is left in the sentence
SentenceMarkSafeKeep(s, cell) == s

SentenceMarkSafe(s, cell) ==
    IF cell \in s.cells
    THEN [cells |-> s.cells \ {cell}, count |-> s.count]
    ELSE s

\* ---------------------------------------------------------------- MinesweeperAI
\* mark_mine: the new mines set and the new knowledge
MarkMineSet(ms, cell) == ms \cup {cell}

MarkMineKnowledge(kb, cell) ==
    [i \in 1 .. Len(kb) |-> SentenceMarkMine(kb[i], cell)]

\* a slip: the set is assigned, not added to
MarkSafeSetAssigned(sf, cell) == {cell}

\* mark_safe: the new safes set and the new knowledge
MarkSafeSet(sf, cell) == sf \cup {cell}

\* a slip: the loop over the sentences stops after the first one
MarkSafeKnowledgeFirstOnly(kb, cell) ==
    [i \in 1 .. Len(kb) |-> IF i = 1 THEN SentenceMarkSafe(kb[i], cell) ELSE kb[i]]

MarkSafeKnowledge(kb, cell) ==
    [i \in 1 .. Len(kb) |-> SentenceMarkSafe(kb[i], cell)]

\* add_knowledge, step 3: the neighbours that are known mines, and the
\* undetermined neighbours (sf is safes after cell itself was marked safe)
KnownMineNeighbors(cell, ms) == {n \in Neighbors(cell) : n \in ms}

\* a slip: only the neighbours in the same row or column are looked at
NewCellsOrthogonal(cell, ms, sf) ==
    {n \in Neighbors(cell) : /\ n \notin ms
                              /\ n \notin sf
                              /\ (n[1] = cell[1] \/ n[2] = cell[2])}

NewCells(cell, ms, sf) == {n \in Neighbors(cell) : n \notin ms /\ n \notin sf}

\* a slip: the known mines among the neighbours are not taken off the count
AppendObservationRawCount(kb, cell, count, ms, sf) ==
    IF NewCells(cell, ms, sf) # {}
    THEN Append(kb, Sentence(NewCells(cell, ms, sf), count))
    ELSE kb

\* add_knowledge, lines 200-236: record the move, mark the cell safe,
\* append the new sentence when it has cells
AppendObservation(kb, cell, count, ms, sf) ==
    IF NewCells(cell, ms, sf) # {}
    THEN Append(kb, Sentence(NewCells(cell, ms, sf),
                             count - Cardinality(KnownMineNeighbors(cell, ms))))
    ELSE kb

AddKnowledge(cell, count) ==
    /\ pc = "idle"
    /\ moves_made' = moves_made \cup {cell}
    /\ safes' = MarkSafeSet(safes, cell)
    /\ knowledge' = AppendObservation(MarkSafeKnowledge(knowledge, cell), cell, count,
                                      mines, MarkSafeSet(safes, cell))
    /\ arg_cell' = cell
    /\ arg_count' = count
    /\ knowledge_updated' = TRUE
    /\ pc' = "update"
    /\ calls' = calls + 1
    /\ UNCHANGED <<board, mines, safes_found, mines_found, result>>

\* the environment reveals a cell that is not a mine and reports its true count
Truthful(cell) ==
    /\ cell \in Grid
    /\ cell \notin board
    /\ AddKnowledge(cell, NearbyMines(cell))

RecordObservation ==
    /\ calls < MaxCalls
    /\ \E cell \in Grid : Truthful(cell)

\* update_knowledge, lines 251-258: one scan of the knowledge base
RECURSIVE UnionKnownSafes(_, _)
UnionKnownSafes(kb, i) ==
    IF i = 0 THEN {} ELSE UnionKnownSafes(kb, i - 1) \cup KnownSafes(kb[i])

RECURSIVE UnionKnownMines(_, _)
UnionKnownMines(kb, i) ==
    IF i = 0 THEN {} ELSE UnionKnownMines(kb, i - 1) \cup KnownMines(kb[i])

Scan ==
    /\ pc = "update"
    /\ knowledge_updated
    /\ safes_found' = UnionKnownSafes(knowledge, Len(knowledge))
    /\ mines_found' = UnionKnownMines(knowledge, Len(knowledge))
    /\ knowledge_updated' = (safes_found' # {} \/ mines_found' # {})
    /\ pc' = "mark"
    /\ UNCHANGED <<board, engine, arg_cell, arg_count, result, calls>>

\* lines 261-264: for safe in safes: self.mark_safe(safe), in any order
MarkSafeStep ==
    /\ pc = "mark"
    /\ \E safe \in safes_found :
        /\ safes' = MarkSafeSet(safes, safe)
        /\ knowledge' = MarkSafeKnowledge(knowledge, safe)
        /\ safes_found' = safes_found \ {safe}
    /\ UNCHANGED <<board, moves_made, mines, pc, arg_cell, arg_count, mines_found,
                   knowledge_updated, result, calls>>

\* lines 266-269: for mine in mines: self.mark_mine(mine), after the safes
MarkMineStep ==
    /\ pc = "mark"
    /\ safes_found = {}
    /\ \E mine \in mines_found :
        /\ mines' = MarkMineSet(mines, mine)
        /\ knowledge' = MarkMineKnowledge(knowledge, mine)
        /\ mines_found' = mines_found \ {mine}
    /\ UNCHANGED <<board, moves_made, safes, pc, arg_cell, arg_count, safes_found,
                   knowledge_updated, result, calls>>

\* a slip: line 272 is left out and the exhausted sentences stay
RemoveEmptyKeepAll(kb) == kb

\* line 272: drop the sentences with no cells; then the while test
RemoveEmpty(kb) == SelectSeq(kb, LAMBDA s : s.cells # {})

\* a slip: the loop makes one pass and stops
EndPassOnce ==
    /\ pc = "mark"
    /\ safes_found = {}
    /\ mines_found = {}
    /\ knowledge' = RemoveEmpty(knowledge)
    /\ pc' = "infer"
    /\ knowledge_updated' = knowledge_updated
    /\ UNCHANGED <<board, moves_made, mines, safes, arg_cell, arg_count,
                   safes_found, mines_found, result, calls>>

EndPass ==
    /\ pc = "mark"
    /\ safes_found = {}
    /\ mines_found = {}
    /\ knowledge' = RemoveEmpty(knowledge)
    /\ pc' = IF knowledge_updated THEN "update" ELSE "infer"
    /\ knowledge_updated' = knowledge_updated
    /\ UNCHANGED <<board, moves_made, mines, safes, arg_cell, arg_count,
                   safes_found, mines_found, result, calls>>

\* infer_new_sentences
InKnowledge(s, kb) == \E i \in 1 .. Len(kb) : SentenceEq(kb[i], s)

\* the pair (sentence1, sentence2) visited at position p of the nested loops
PairFirst(kb, p) == kb[((p - 1) \div Len(kb)) + 1]
PairSecond(kb, p) == kb[((p - 1) % Len(kb)) + 1]

Derived(s1, s2) == Sentence(s2.cells \ s1.cells, s2.count - s1.count)

\* a slip: a sentence is paired with itself and with its equals
InferPairNoSkip(s1, s2, new_knowledge) ==
    IF s1.cells \subseteq s2.cells
    THEN IF ~ InKnowledge(Derived(s1, s2), new_knowledge)
         THEN Append(new_knowledge, Derived(s1, s2))
         ELSE new_knowledge
    ELSE new_knowledge

\* lines 283-291: what one pair adds to new_knowledge
InferPair(s1, s2, new_knowledge) ==
    IF SentenceEq(s1, s2) THEN new_knowledge
    ELSE IF s1.cells \subseteq s2.cells
         THEN IF ~ InKnowledge(Derived(s1, s2), new_knowledge)
              THEN Append(new_knowledge, Derived(s1, s2))
              ELSE new_knowledge
         ELSE new_knowledge

RECURSIVE NewKnowledge(_, _)
NewKnowledge(kb, p) ==
    IF p = 0 THEN << >>
    ELSE InferPair(PairFirst(kb, p), PairSecond(kb, p), NewKnowledge(kb, p - 1))

InferNewSentences(kb) == kb \o NewKnowledge(kb, Len(kb) * Len(kb))

Infer ==
    /\ pc = "infer"
    /\ knowledge' = InferNewSentences(knowledge)
    /\ pc' = "idle"
    /\ UNCHANGED <<board, moves_made, mines, safes, arg_cell, arg_count,
                   safes_found, mines_found, knowledge_updated, result, calls>>

\* make_safe_move: the first cell of safes, in the set's iteration order,
\* that is not in moves_made; None when there is none
\* a slip: the moves already made are not left out
SafeMovesAll(sf, mv) == sf

SafeMoves(sf, mv) == {move \in sf : move \notin mv}

SafeMoveResults(sf, mv) == IF SafeMoves(sf, mv) # {} THEN SafeMoves(sf, mv) ELSE {None}

MakeSafeMove ==
    /\ pc = "idle"
    /\ \E move \in SafeMoveResults(safes, moves_made) :
            result' = [op |-> "make_safe_move", ret |-> move]
    /\ pc' = "returned"
    /\ UNCHANGED <<board, engine, arg_cell, arg_count, safes_found, mines_found,
                   knowledge_updated, calls>>

\* make_random_move: random.choice among the cells neither chosen nor known
\* to be mines; None when there is none
\* a slip: the known mines are not left out
ChoicesWithMines(mv, ms) == {c \in Grid : c \notin mv}

Choices(mv, ms) == {c \in Grid : c \notin mv /\ c \notin ms}

RandomMoveResults(mv, ms) == IF Choices(mv, ms) # {} THEN Choices(mv, ms) ELSE {None}

MakeRandomMove ==
    /\ pc = "idle"
    /\ \E move \in RandomMoveResults(moves_made, mines) :
            result' = [op |-> "make_random_move", ret |-> move]
    /\ pc' = "returned"
    /\ UNCHANGED <<board, engine, arg_cell, arg_count, safes_found, mines_found,
                   knowledge_updated, calls>>

\* the caller has the query's result and goes on
Resume ==
    /\ pc = "returned"
    /\ pc' = "idle"
    /\ result' = [op |-> "none", ret |-> None]
    /\ UNCHANGED <<board, engine, arg_cell, arg_count, safes_found, mines_found,
                   knowledge_updated, calls>>

\* the same observations, within the call bound of SpecMoves
RecordObservationMoves ==
    /\ calls < MaxMoveCalls
    /\ \E cell \in Grid : Truthful(cell)

\* ---------------------------------------------------------------- other callers
\* mark_safe and mark_mine called from outside, between two add_knowledge calls
MarkSafeCall ==
    /\ pc = "idle"
    /\ calls < MaxOpenCalls
    /\ \E cell \in Grid :
        /\ safes' = MarkSafeSet(safes, cell)
        /\ knowledge' = MarkSafeKnowledge(knowledge, cell)
    /\ calls' = calls + 1
    /\ UNCHANGED <<board, moves_made, mines, pc, arg_cell, arg_count, safes_found,
                   mines_found, knowledge_updated, result>>

MarkMineCall ==
    /\ pc = "idle"
    /\ calls < MaxOpenCalls
    /\ \E cell \in Grid :
        /\ mines' = MarkMineSet(mines, cell)
        /\ knowledge' = MarkMineKnowledge(knowledge, cell)
    /\ calls' = calls + 1
    /\ UNCHANGED <<board, moves_made, safes, pc, arg_cell, arg_count, safes_found,
                   mines_found, knowledge_updated, result>>

\* add_knowledge with any in-bounds cell and any count, truthful or not
RecordObservationOpen ==
    /\ calls < MaxOpenCalls
    /\ \E cell \in Grid, count \in 0 .. MaxCount : AddKnowledge(cell, count)

\* add_knowledge with any cell, in bounds or not, and any count
RecordObservationBreach ==
    /\ calls < MaxBreachCalls
    /\ \E cell \in AnyCell, count \in 0 .. MaxBreachCount : AddKnowledge(cell, count)

\* ---------------------------------------------------------------- specification
\* the layouts Minesweeper.__init__ can place, within the bounds
Layouts ==
    {b \in SUBSET Grid : Cardinality(b) <= MaxMines \/ Cardinality(Grid \ b) <= MaxClear}

\* Minesweeper.__init__ and MinesweeperAI.__init__
Init ==
    /\ board \in Layouts
    /\ moves_made = {}
    /\ mines = {}
    /\ safes = {}
    /\ knowledge = << >>
    /\ pc = "idle"
    /\ arg_cell = None
    /\ arg_count = 0
    /\ safes_found = {}
    /\ mines_found = {}
    /\ knowledge_updated = FALSE
    /\ result = [op |-> "none", ret |-> None]
    /\ calls = 0

\* the steps inside add_knowledge after the new sentence was appended
Saturate ==
    \/ Scan
    \/ MarkSafeStep
    \/ MarkMineStep
    \/ EndPass
    \/ Infer

\* the engine fed with truthful observations of cells that are not mines
Next ==
    \/ RecordObservation
    \/ Saturate

Spec == Init /\ [][Next]_vars

\* the same, with the caller asking for moves between the observations
NextMoves ==
    \/ RecordObservationMoves
    \/ Saturate
    \/ MakeSafeMove
    \/ MakeRandomMove
    \/ Resume

SpecMoves == Init /\ [][NextMoves]_vars

\* any caller: observations that need not be truthful, mark_safe and mark_mine
\* called directly (the layout plays no part)
InitOpen == Init /\ board = {}

NextOpen ==
    \/ RecordObservationOpen
    \/ MarkSafeCall
    \/ MarkMineCall
    \/ Saturate

SpecOpen == InitOpen /\ [][NextOpen]_vars

\* a caller that breaks add_knowledge's contract: any cell, any count
NextBreach ==
    \/ RecordObservationBreach
    \/ Saturate

SpecBreach == InitOpen /\ [][NextBreach]_vars

\* ---------------------------------------------------------------- claims
\* C1: under truthful observations of in-bounds cells that are not mines, no
\* cell is ever in both safes and mines.
C1_Soundness == safes \cap mines = {}

\* a call has returned with cells known safe and cells known to be mines
C1_Witness == pc = "idle" /\ calls >= 2 /\ mines # {} /\ safes \ moves_made # {}

\* C2: under truthful observations, every cell of safes is no mine of the
\* layout and every cell of mines is one; so no cell make_safe_move can
\* return is a mine.
C2_SafesAndMinesAreTrue ==
    /\ safes \cap board = {}
    /\ mines \subseteq board
    /\ \A move \in SafeMoveResults(safes, moves_made) : move # None => move \notin board

\* saturation found every mine of the layout, and a safe cell that was never
\* revealed, which make_safe_move can return
C2_Witness ==
    /\ pc = "idle"
    /\ board # {}
    /\ mines = board
    /\ SafeMoves(safes, moves_made) # {}

\* C3: whatever the sequence of add_knowledge, mark_safe and mark_mine calls,
\* moves_made, safes and mines only grow.
C3_Monotonic ==
    [][/\ moves_made \subseteq moves_made'
       /\ safes \subseteq safes'
       /\ mines \subseteq mines']_vars

\* all three sets hold cells after a direct mark and an observation
C3_Witness ==
    /\ pc = "idle"
    /\ calls = MaxOpenCalls
    /\ moves_made # {}
    /\ mines # {}
    /\ Cardinality(safes) >= 2

\* a sentence from which a safe cell or a mine can still be read off
Certain(s) == (s.count = 0 /\ s.cells # {}) \/ s.count = Cardinality(s.cells)

\* the sentences the last inference pass appended to kb, given the knowledge
\* base old it started from
Appended(old, kb) == {kb[i] : i \in Len(old) + 1 .. Len(kb)}

\* C4 as stated: when add_knowledge has returned, no sentence of the
\* knowledge base has count 0 with cells left, or count equal to its number
\* of cells.
C4_AllFactsExtractedAtReturn ==
    pc = "idle" => \A i \in 1 .. Len(knowledge) : ~ Certain(knowledge[i])

\* C4 amended: when the saturation loop ends, before the inference pass, no
\* sentence has count 0 or count equal to its number of cells; the pass then
\* leaves safes and mines as they are, and the cells of the sentences it
\* derives, those of count 0 included, are not in safes when the call returns.
C4_SaturatedBeforeInference ==
    [][pc = "infer" =>
        /\ \A i \in 1 .. Len(knowledge) : ~ Certain(knowledge[i])
        /\ safes' = safes
        /\ mines' = mines
        /\ \A d \in Appended(knowledge, knowledge') : d.cells \cap safes' = {}]_vars

\* the call has returned and holds a derived sentence of count 0 whose cells
\* are not in safes
C4_Witness ==
    /\ pc = "idle"
    /\ \E i \in 1 .. Len(knowledge) :
        /\ knowledge[i].count = 0
        /\ knowledge[i].cells # {}
        /\ knowledge[i].cells \cap safes = {}

\* C5 as stated: after any sequence of add_knowledge calls the knowledge
\* base holds no two equal sentences.
C5_NoEqualSentences ==
    pc = "idle" =>
        \A i, j \in 1 .. Len(knowledge) :
            i # j => ~ SentenceEq(knowledge[i], knowledge[j])

\* C6 as stated: add_knowledge called with a cell outside the grid leaves
\* moves_made, safes, mines and the knowledge base unchanged.
C6_OutOfBoundsRejected ==
    [][(calls' = calls + 1 /\ ~ InBounds(arg_cell')) => UNCHANGED engine]_vars

\* C7: make_safe_move returns a cell of safes that is not in moves_made
\* whenever there is one, returns None exactly when safes is a subset of
\* moves_made, and leaves moves_made, safes, mines and the knowledge base
\* unchanged.
C7_SafeMove ==
    /\ [](pc = "returned" /\ result.op = "make_safe_move" =>
            /\ result.ret # None => (result.ret \in safes /\ result.ret \notin moves_made)
            /\ result.ret = None <=> safes \subseteq moves_made)
    /\ [][result'.op = "make_safe_move" => UNCHANGED engine]_vars

\* make_safe_move has returned a cell while other safe cells were revealed
C7_Witness ==
    /\ pc = "returned"
    /\ result.op = "make_safe_move"
    /\ result.ret # None
    /\ moves_made # {}
    /\ mines # {}

\* C8: make_random_move returns only an in-bounds cell that is in neither
\* moves_made nor mines, whatever the random choice, returns None exactly when
\* every cell of the grid is in moves_made or mines, and leaves the engine
\* unchanged.
C8_RandomMove ==
    /\ [](pc = "returned" /\ result.op = "make_random_move" =>
            /\ result.ret # None =>
                    /\ InBounds(result.ret)
                    /\ result.ret \notin moves_made
                    /\ result.ret \notin mines
            /\ result.ret = None <=> Grid \subseteq (moves_made \cup mines))
    /\ [][result'.op = "make_random_move" => UNCHANGED engine]_vars

\* make_random_move has returned a cell while a mine was known
C8_Witness ==
    /\ pc = "returned"
    /\ result.op = "make_random_move"
    /\ result.ret # None
    /\ mines # {}
    /\ moves_made # {}

\* C9: under truthful observations, when add_knowledge(cell, 0) has returned
\* every in-bounds neighbour of cell is in safes, whatever was known before.
C9_ZeroCountNeighborsSafe ==
    (pc = "idle" /\ arg_cell # None /\ arg_count = 0) => Neighbors(arg_cell) \subseteq safes

\* a count-0 observation has returned on an engine that held sentences, and
\* it made safe a neighbour that was not known before
C9_Witness ==
    /\ pc = "idle"
    /\ calls >= 2
    /\ arg_cell # None
    /\ arg_count = 0
    /\ board # {}
    /\ Neighbors(arg_cell) \ moves_made # {}

\* C10: under truthful observations every sentence of the knowledge base has
\* 0 <= count <= |cells|, in every state, those inside the saturation loop
\* and after the inference pass included.
C10_CountInRange ==
    \A i \in 1 .. Len(knowledge) :
        /\ 0 <= knowledge[i].count
        /\ knowledge[i].count <= Cardinality(knowledge[i].cells)

\* inside the saturation loop, a mine being marked, with a sentence that still
\* counts a mine
C10_Witness ==
    /\ pc = "mark"
    /\ mines_found # {}
    /\ \E i \in 1 .. Len(knowledge) : knowledge[i].count >= 1
    /\ Len(knowledge) >= 2

\* C11 as stated: a call of add_knowledge that breaks the caller's contract
\* fails at that call: no call on an in-bounds cell gets as far as revealing a
\* cell that is in mines, or as storing a sentence whose count is below 0 or
\* above its number of cells.
C11_BreachFailsLoudly ==
    [][(pc = "idle" /\ pc' = "update" /\ moves_made' \subseteq Grid) =>
        /\ arg_cell' \notin mines
        /\ Len(knowledge') > Len(knowledge) =>
            /\ 0 <= knowledge'[Len(knowledge')].count
            /\ knowledge'[Len(knowledge')].count
                    <= Cardinality(knowledge'[Len(knowledge')].cells)]_vars

\* C12: no sentence of the knowledge base contains a cell of safes or mines;
\* a step that puts a cell in mines removes it from every sentence that
\* contains it and lowers that sentence's count by exactly 1, a step that
\* puts a cell in safes removes it and keeps the count, and the sentences
\* that do not contain the cell are left as they were.
C12_KnownCellsPurged ==
    /\ [](\A i \in 1 .. Len(knowledge) :
            knowledge[i].cells \cap (safes \cup mines) = {})
    /\ [][\A c \in mines' \ mines : \A i \in 1 .. Len(knowledge) :
            /\ i <= Len(knowledge')
            /\ knowledge'[i].cells = knowledge[i].cells \ {c}
            /\ knowledge'[i].count =
                    knowledge[i].count - (IF c \in knowledge[i].cells THEN 1 ELSE 0)]_vars
    /\ [][\A c \in safes' \ safes : \A i \in 1 .. Len(knowledge) :
            /\ i <= Len(knowledge')
            /\ knowledge'[i].cells = knowledge[i].cells \ {c}
            /\ knowledge'[i].count = knowledge[i].count]_vars

\* cells are known safe and cells are known mines while two sentences are
\* still held, one of them with cells left in it
C12_Witness ==
    /\ safes # {}
    /\ mines # {}
    /\ Len(knowledge) >= 2
    /\ \E i \in 1 .. Len(knowledge) : knowledge[i].cells # {}


\* the number of cells summed over all sentences of kb
RECURSIVE TotalCells(_)
TotalCells(kb) ==
    IF kb = << >> THEN 0
    ELSE Cardinality(Head(kb).cells) + TotalCells(Tail(kb))

\* the cells that occur in some sentence of kb
AllCells(kb) == UNION {kb[i].cells : i \in 1 .. Len(kb)}

\* the cells a pass has found and not marked yet
Pending == IF pc = "mark" THEN safes_found \cup mines_found ELSE {}

\* the total number of cells, less the cells that are about to be removed
Weight == TotalCells(knowledge) - Cardinality(Pending \cap AllCells(knowledge))

\* C13: when the saturation loop exits no sentence is empty, has count 0 or has
\* count equal to its number of cells; a pass collects every cell of a sentence
\* of count 0 as safe and every cell of a sentence of count equal to its size
\* as a mine, each collected cell is put in safes, respectively mines, before
\* the pass ends, and no cell ever leaves safes or mines.
C13_SaturationFixpoint ==
    /\ [](pc = "infer" => \A i \in 1 .. Len(knowledge) :
            /\ knowledge[i].cells # {}
            /\ knowledge[i].count # 0
            /\ knowledge[i].count # Cardinality(knowledge[i].cells))
    /\ [][(pc = "update" /\ pc' = "mark") => \A i \in 1 .. Len(knowledge) :
            /\ knowledge[i].count = 0 => knowledge[i].cells \subseteq safes_found'
            /\ knowledge[i].count = Cardinality(knowledge[i].cells) =>
                    knowledge[i].cells \subseteq mines_found']_vars
    /\ [][pc = "mark" =>
            /\ safes_found \ safes_found' \subseteq safes'
            /\ mines_found \ mines_found' \subseteq mines'
            /\ pc' # "mark" => (safes_found = {} /\ mines_found = {})]_vars
    /\ [][safes \subseteq safes' /\ mines \subseteq mines']_vars

\* the loop has exited after it found the two mines next to the revealed
\* cell, marked them and removed the sentence they came from
C13_Witness ==
    /\ pc = "infer"
    /\ calls <= 2
    /\ Cardinality(mines) = 2
    /\ mines \subseteq Neighbors(arg_cell)
    /\ knowledge = << >>

\* where the call stands within a pass, and how many found cells wait
Rank ==
    CASE pc = "update" -> 2
      [] pc = "mark" /\ knowledge_updated ->
            3 + Cardinality(safes_found) + Cardinality(mines_found)
      [] OTHER -> 1

\* a bound on what a call can still do
Measure ==
    CASE pc = "idle" -> -1
      [] pc = "infer" -> 0
      [] OTHER -> (2 * Cardinality(Grid) + 4) * Weight + Rank

\* C14: the saturation loop terminates: a pass that finds a safe or mine cell
\* ends with strictly fewer cells summed over all sentences than it started
\* with, a pass that finds none leaves the loop, and every step of an
\* add_knowledge call lowers a measure that cannot go below 0. (Rank is
\* smaller than the factor of Weight in Measure, so a step that lowers Measure
\* does not raise Weight.)
C14_SaturationTerminates ==
    /\ [](pc \in {"update", "mark", "infer"} => Measure >= 0)
    /\ [][pc # "idle" => Measure' < Measure]_vars
    /\ [][(pc = "update" /\ pc' = "mark" /\ knowledge_updated') =>
            Weight' < Weight]_vars
    /\ [][(pc = "mark" /\ ~ knowledge_updated) => pc' = "infer"]_vars

\* a pass has found safe cells and mine cells in two sentences and is about to
\* remove them
C14_Witness ==
    /\ pc = "mark"
    /\ knowledge_updated
    /\ safes_found # {}
    /\ mines_found # {}
    /\ Len(knowledge) >= 2


\* the cells of the grid next to cell, diagonals included
Around(cell) ==
    {n \in Grid : /\ n # cell
                  /\ n[1] - cell[1] \in -1 .. 1
                  /\ n[2] - cell[2] \in -1 .. 1}

\* C15: add_knowledge(cell, count) appends exactly one sentence: its cells are
\* the in-bounds neighbours of cell that are in neither mines nor safes once
\* cell is marked safe, its count is count less the number of neighbours in
\* mines; when there is no such neighbour nothing is appended. The sentences
\* held before stay in place, less cell.
C15_ObservationSentence ==
    [][(pc = "idle" /\ pc' = "update") =>
        LET cell == arg_cell'
            known == Around(cell) \cap mines
            new_cells == (Around(cell) \ mines) \ (safes \cup {cell})
        IN  /\ \A i \in 1 .. Len(knowledge) :
                /\ i <= Len(knowledge')
                /\ knowledge'[i].cells = knowledge[i].cells \ {cell}
                /\ knowledge'[i].count = knowledge[i].count
            /\ IF new_cells # {}
               THEN /\ Len(knowledge') = Len(knowledge) + 1
                    /\ knowledge'[Len(knowledge')].cells = new_cells
                    /\ knowledge'[Len(knowledge')].count =
                            arg_count' - Cardinality(known)
               ELSE Len(knowledge') = Len(knowledge)]_vars

\* the second call is an add_knowledge on a cell with a known mine next to it:
\* the one sentence held is the one it appended, with the mine taken off
C15_Witness ==
    /\ pc = "update"
    /\ calls = 2
    /\ Around(arg_cell) \cap mines # {}
    /\ Len(knowledge) = 1
    /\ knowledge[1].cells = (Around(arg_cell) \ mines) \ safes
    /\ knowledge[1].count = arg_count - Cardinality(Around(arg_cell) \cap mines)
    /\ knowledge[1].count > 0


\* the differences of the ordered pairs of unequal sentences of kb with the
\* cells of the first among the cells of the second
Differences(kb) ==
    {[cells |-> kb[j].cells \ kb[i].cells, count |-> kb[j].count - kb[i].count] :
        <<i, j>> \in {q \in (1 .. Len(kb)) \X (1 .. Len(kb)) :
                        /\ kb[q[1]] # kb[q[2]]
                        /\ kb[q[1]].cells \subseteq kb[q[2]].cells}}

\* C16: the inference pass runs once per add_knowledge call, when saturation is
\* over: it appends exactly the differences of the ordered pairs of unequal
\* sentences held when it starts, each once, changes no sentence held before
\* and neither safes nor mines, and the call returns right after it, so what it
\* derived is neither combined nor saturated in that call.
C16_InferenceOnce ==
    /\ [](pc = "infer" => ~ knowledge_updated)
    /\ [][pc = "infer" =>
            /\ pc' = "idle"
            /\ safes' = safes
            /\ mines' = mines
            /\ moves_made' = moves_made
            /\ Len(knowledge') >= Len(knowledge)
            /\ SubSeq(knowledge', 1, Len(knowledge)) = knowledge
            /\ {knowledge'[i] : i \in Len(knowledge) + 1 .. Len(knowledge')}
                    = Differences(knowledge)
            /\ Len(knowledge') - Len(knowledge)
                    = Cardinality(Differences(knowledge))]_vars
    /\ [][pc' = "infer" => pc = "mark"]_vars

\* a call has returned with two sentences from observations, the first within
\* the second, and their difference appended after them, not saturated
C16_Witness ==
    /\ pc = "idle"
    /\ Len(knowledge) = 3
    /\ knowledge[1].cells \subseteq knowledge[2].cells
    /\ knowledge[3].cells = knowledge[2].cells \ knowledge[1].cells
    /\ knowledge[3].cells # {}
    /\ knowledge[3].count = knowledge[2].count - knowledge[1].count
    /\ knowledge[3].count \in {0, Cardinality(knowledge[3].cells)}
    /\ knowledge[3].cells \cap (safes \cup mines) = {}


\* C17: in every state between two calls and for every cell, mark_mine(cell)
\* called twice leaves the same mines and the same sentences, cells and counts,
\* as mark_mine(cell) called once, and likewise mark_safe(cell) with safes;
\* neither touches moves_made or the other set. The same holds of the calls
\* update_knowledge makes itself: marking the cell again changes nothing.
C17_MarkIdempotent ==
    /\ [](pc = "idle" => \A cell \in Grid :
            LET mined == MarkMineKnowledge(knowledge, cell)
                cleared == MarkSafeKnowledge(knowledge, cell)
            IN  /\ MarkMineSet(MarkMineSet(mines, cell), cell) = MarkMineSet(mines, cell)
                /\ MarkMineKnowledge(mined, cell) = mined
                /\ MarkSafeSet(MarkSafeSet(safes, cell), cell) = MarkSafeSet(safes, cell)
                /\ MarkSafeKnowledge(cleared, cell) = cleared)
    /\ [][pc = "mark" =>
            /\ \A cell \in safes_found \ safes_found' :
                /\ MarkSafeSet(safes', cell) = safes'
                /\ MarkSafeKnowledge(knowledge', cell) = knowledge'
            /\ \A cell \in mines_found \ mines_found' :
                /\ MarkMineSet(mines', cell) = mines'
                /\ MarkMineKnowledge(knowledge', cell) = knowledge']_vars

\* a mark_mine has acted and the sentence held still has cells on which a
\* further mark_mine or mark_safe changes the knowledge base
C17_Witness ==
    /\ pc = "idle"
    /\ calls = 2
    /\ mines # {}
    /\ Len(knowledge) = 1
    /\ knowledge[1].count = arg_count - Cardinality(mines)
    /\ \E cell \in knowledge[1].cells :
        /\ MarkMineKnowledge(knowledge, cell) # knowledge
        /\ MarkSafeKnowledge(knowledge, cell) # knowledge

\* C18: every revealed cell is in safes from the step that records it as a
\* move, and with truthful observations no revealed cell is in mines.
C18_MovesAreSafe ==
    /\ moves_made \subseteq safes
    /\ moves_made \cap mines = {}

\* two cells were revealed and a mine was found next to them
C18_Witness ==
    /\ pc = "idle"
    /\ Cardinality(moves_made) >= 2
    /\ mines # {}
    /\ mines \cap Neighbors(arg_cell) # {}

====
